---- MODULE Spec2Model ----
(***************************************************************************)
(* workflow-assistant-rag: the TF-IDF retriever (src/retriever.py) and the *)
(* schema validator (src/validate.py), as state machines.                  *)
(*                                                                         *)
(* Texts are sequences of raw words.  Similarities are exact: a cosine is  *)
(* kept as the pair (dot, norms) and compared by cross-multiplication;     *)
(* only the score that get_top_k returns is rounded (4 decimals).  The     *)
(* IDF weights ln((1+n)/(1+df))+1 of TfidfVectorizer are tabulated in      *)
(* eighths so that every product stays inside TLC's integers.              *)
(***************************************************************************)
EXTENDS Integers, Sequences, FiniteSets, TLC

VARIABLES
  examples,   \* retriever: the corpus handed to build_index / get_top_k
  index,      \* retriever: what build_index returned, or its exception
  call,       \* retriever: the last get_top_k call and its outcome
  vcall,      \* validator: the last validate_output call and its outcome
  ccall,      \* validator: the last coverage_metric call and its outcome
  pc,         \* app: where the main program of app.py stands
  SCHEMA,     \* app: the module globals of app.py
  EXAMPLES,
  VECTORIZER,
  TFIDF_MATRIX,
  session,    \* app: the session of the one client of the model
  run,        \* app: the last request handled and what its handler did
  reload,     \* app: where a second call of initialize_data stands
  produced    \* history: the JSON object the latest /run that parsed one got

validatorVars == <<vcall, ccall>>

appVars ==
  <<pc, SCHEMA, EXAMPLES, VECTORIZER, TFIDF_MATRIX, session, run, reload, produced>>

vars == <<examples, index, call, validatorVars, appVars>>

(***************************************************************************)
(* Bounds of the model.                                                    *)
(***************************************************************************)
MaxDocs == 3
MaxK == 3

(***************************************************************************)
(* Generic helpers.                                                        *)
(***************************************************************************)
RECURSIVE SumOver(_, _)
SumOver(S, f) ==
  IF S = {} THEN 0
  ELSE LET x == CHOOSE y \in S : TRUE IN f[x] + SumOver(S \ {x}, f)

Range(s) == {s[i] : i \in 1..Len(s)}

Min2(a, b) == IF a < b THEN a ELSE b

(***************************************************************************)
(* Documents.  An example is a record title/description/config; the        *)
(* corpora of the model use one-word (or empty) titles and descriptions    *)
(* and the empty config {}.                                                *)
(***************************************************************************)
Titles == {"", "Email", "task"}
Descriptions == {"", "email"}
EmptyConfig == << >>
Examples == [title : Titles, description : Descriptions, config : {EmptyConfig}]

\* json.dumps(config, separators=(',', ':')) of the configs of the model
json_dumps(config) == IF config = EmptyConfig THEN "{}" ELSE "{...}"

\* to_text: f"{title} {description} {config_str}", as its space-separated words
to_text(example) ==
  <<example.title, example.description, json_dumps(example.config)>>

(***************************************************************************)
(* TfidfVectorizer(lowercase=True): tokens are runs of two or more word    *)
(* characters of the lower-cased text.                                     *)
(***************************************************************************)
Lower(w) == IF w = "Email" THEN "email" ELSE w

\* "" and "{}" hold no run of two word characters
IsToken(w) == w \notin {"", "{}", "{...}"}

Tokenize(text) ==
  LET kept == SelectSeq(text, IsToken)
  IN [i \in 1..Len(kept) |-> Lower(kept[i])]

Tf(t, tokens) == Cardinality({i \in 1..Len(tokens) : tokens[i] = t})

\* round(8 * (ln((1 + n) / (1 + df)) + 1)): smooth_idf of TfidfVectorizer
IdfEighths(n, df) ==
  CASE df >= n -> 8
    [] n = 2 /\ df = 1 -> 11
    [] n = 3 /\ df = 1 -> 14
    [] n = 3 /\ df = 2 -> 10
    [] n = 4 /\ df = 1 -> 15
    [] n = 4 /\ df = 2 -> 12
    [] n = 4 /\ df = 3 -> 10
    [] OTHER -> 8

\* vectorizer.fit: the vocabulary and the idf weight of each term
FitVocabulary(texts) ==
  UNION {Range(Tokenize(texts[i])) : i \in 1..Len(texts)}

FitIdf(texts) ==
  [t \in FitVocabulary(texts) |->
     IdfEighths(Len(texts),
                Cardinality({i \in 1..Len(texts) : t \in Range(Tokenize(texts[i]))}))]

\* vectorizer.transform of one text: tf * idf per known term, unknown terms dropped
\* (the l2 norm is applied when two vectors are compared: see Norm2)
Transform(vectorizer, text) ==
  [t \in vectorizer.vocabulary |-> Tf(t, Tokenize(text)) * vectorizer.idf[t]]

Norm2(vec) == SumOver(DOMAIN vec, [t \in DOMAIN vec |-> vec[t] * vec[t]])

Dot(u, v) == SumOver(DOMAIN u, [t \in DOMAIN u |-> u[t] * v[t]])

NoIndex == [status |-> "none"]

\* mutant of EmptyExamples: the guard left out
EmptyExamplesUnchecked(exs) == FALSE

\* build_index's guard: "if not examples"
EmptyExamples(exs) == Len(exs) = 0

\* build_index(examples): (vectorizer, tfidf_matrix, texts) or the exception raised
build_index(exs) ==
  IF EmptyExamples(exs)
  THEN [status |-> "raised", error |-> "ValueError: Examples list cannot be empty"]
  ELSE LET texts == [i \in 1..Len(exs) |-> to_text(exs[i])]
       IN IF FitVocabulary(texts) = {}
          THEN \* TfidfVectorizer.fit_transform on documents without any token
               [status |-> "raised", error |-> "ValueError: empty vocabulary"]
          ELSE LET vectorizer == [vocabulary |-> FitVocabulary(texts),
                                  idf |-> FitIdf(texts)]
               IN [status |-> "built",
                   vectorizer |-> vectorizer,
                   matrix |-> [i \in 1..Len(texts) |-> Transform(vectorizer, texts[i])],
                   texts |-> texts]

(***************************************************************************)
(* get_top_k.  A similarity is the cosine of the query vector and a row of *)
(* the matrix: both are l2-normalised by the vectorizer (a vector without  *)
(* any term stays zero), so matrix.dot(query_vec.T) is dot / (|q| * |d|).  *)
(***************************************************************************)
ScoreScale == 10000

\* mutant of Similarity: the rows not normalised (a raw dot product)
SimilarityRaw(qv, row) == [num |-> Dot(qv, row) * Dot(qv, row), den |-> 1]

\* the exact similarity of one row, up to the factor 1/|q|^2 common to all
\* rows: (dot^2, |d|^2), and (0, 1) for a row or a query without terms
Similarity(qv, row) ==
  IF Norm2(qv) = 0 \/ Norm2(row) = 0
  THEN [num |-> 0, den |-> 1]
  ELSE [num |-> Dot(qv, row) * Dot(qv, row), den |-> Norm2(row)]

SimLeq(a, b) == a.num * b.den <= b.num * a.den

RECURSIVE ISqrt(_, _, _)
\* the largest s in lo..hi-1 with s * s <= x
ISqrt(lo, hi, x) ==
  IF hi - lo <= 1 THEN lo
  ELSE LET mid == (lo + hi) \div 2
       IN IF mid * mid <= x THEN ISqrt(mid, hi, x) ELSE ISqrt(lo, mid, x)

\* mutant of RoundScore: the cosine divided out by hand, 0/0 for a query or a
\* row without terms; the nan it gives is the score -1 here
RoundScoreNaN(qv, row) ==
  IF Norm2(qv) = 0 \/ Norm2(row) = 0 THEN -1
  ELSE LET p == Norm2(qv) * Norm2(row)
           d2 == Dot(qv, row) * Dot(qv, row)
           t0 == d2 \div p
           r0 == d2 % p
           t1 == t0 * 1000 + (r0 * 1000) \div p
           r1 == (r0 * 1000) % p
           t2 == t1 * 1000 + (r1 * 1000) \div p
           r2 == (r1 * 1000) % p
           t3 == t2 * 100 + (r2 * 100) \div p
           r3 == (r2 * 100) % p
           s == ISqrt(0, ScoreScale + 1, t3)
       IN IF s * s + s < t3 \/ (s * s + s = t3 /\ 4 * r3 >= p) THEN s + 1 ELSE s

\* round(float(similarity), 4), as an integer number of 1/10000:
\* round(10000 * dot / sqrt(|q|^2 * |d|^2)), by long division and a square root
RoundScore(qv, row) ==
  IF Norm2(qv) = 0 \/ Norm2(row) = 0 THEN 0
  ELSE LET p == Norm2(qv) * Norm2(row)
           d2 == Dot(qv, row) * Dot(qv, row)
           t0 == d2 \div p
           r0 == d2 % p
           t1 == t0 * 1000 + (r0 * 1000) \div p
           r1 == (r0 * 1000) % p
           t2 == t1 * 1000 + (r1 * 1000) \div p
           r2 == (r1 * 1000) % p
           t3 == t2 * 100 + (r2 * 100) \div p
           r3 == (r2 * 100) % p
           s == ISqrt(0, ScoreScale + 1, t3)
       IN IF s * s + s < t3 \/ (s * s + s = t3 /\ 4 * r3 >= p) THEN s + 1 ELSE s

\* np.argsort(similarity_scores): the index orders that sort the scores
\* ascending.  The default kind is not a stable sort, so equal scores may come
\* out in any order.
Argsort(sims) ==
  {p \in [1..Len(sims) -> 1..Len(sims)] :
     /\ \A a, b \in 1..Len(sims) : a # b => p[a] # p[b]
     /\ \A a, b \in 1..Len(sims) : a < b => SimLeq(sims[p[a]], sims[p[b]])}

\* mutants of Reversed: the reversal forgotten; the reversal one index off
ReversedForgotten(order) == order

ReversedOffByOne(order) ==
  [i \in 1..Len(order) |-> order[IF Len(order) - i < 1 THEN 1 ELSE Len(order) - i]]

\* order[::-1]
Reversed(order) == [i \in 1..Len(order) |-> order[Len(order) + 1 - i]]

\* mutant of Take: seq[:k-1]
TakeOneLess(seq, k) == SubSeq(seq, 1, Min2(k - 1, Len(seq)))

\* seq[:k], for k >= 0
Take(seq, k) == SubSeq(seq, 1, Min2(k, Len(seq)))

\* mutant of KTooSmall: "if k < 0"
KNegative(k) == k < 0

\* "if k < 1: raise"
KTooSmall(k) == k < 1

\* "if k > len(examples): k = len(examples)"
ClampK(k, n) == IF k > n THEN n ELSE k

\* get_top_k(query, vectorizer, matrix, examples, k): the outcomes it can have
get_top_k(query, vectorizer, matrix, exs, k) ==
  IF KTooSmall(k)
  THEN {[raised |-> "ValueError: k must be at least 1", encoded |-> FALSE,
         returned |-> FALSE, results |-> << >>]}
  ELSE LET kk == ClampK(k, Len(exs))
           query_vec == Transform(vectorizer, query)
           similarity_scores == [i \in 1..Len(matrix) |-> Similarity(query_vec, matrix[i])]
       IN {LET top_indices == Take(Reversed(order), kk)
           IN IF \E j \in 1..Len(top_indices) : top_indices[j] > Len(exs)
              THEN \* examples[idx] of a list shorter than the matrix
                   [raised |-> "IndexError: list index out of range",
                    encoded |-> TRUE, returned |-> FALSE, results |-> << >>]
              ELSE [raised |-> "none", encoded |-> TRUE, returned |-> TRUE,
                    results |->
                      [j \in 1..Len(top_indices) |->
                         [idx |-> top_indices[j],
                          example |-> exs[top_indices[j]],
                          score |-> RoundScore(query_vec, matrix[top_indices[j]])]]]
           : order \in Argsort(similarity_scores)}

(***************************************************************************)
(* The retriever as a state machine: a corpus is loaded, the index is      *)
(* built from it, then queries are ranked against it.                      *)
(***************************************************************************)
RECURSIVE SeqsUpTo(_, _)
SeqsUpTo(S, n) ==
  IF n = 0 THEN {<< >>}
  ELSE LET shorter == SeqsUpTo(S, n - 1)
       IN shorter \cup {Append(s, x) : s \in {t \in shorter : Len(t) = n - 1}, x \in S}

Corpora == SeqsUpTo(Examples, MaxDocs)

Queries ==
  {to_text(e) : e \in Examples} \cup {<< >>, <<"zzz">>, <<"task", "zzz">>}

Ks == -1..MaxK

NoCall == [status |-> "none"]
NoVCall == [status |-> "none"]
NoCCall == [status |-> "none"]

\* a module global of app.py before initialize_data assigns it (None)
Unset == [set |-> FALSE]

NoRun == [handler |-> "none"]

Init ==
  /\ examples = << >>
  /\ index = NoIndex
  /\ call = NoCall
  /\ vcall = NoVCall
  /\ ccall = NoCCall
  /\ pc = "main"
  /\ SCHEMA = Unset
  /\ EXAMPLES = Unset
  /\ VECTORIZER = Unset
  /\ TFIDF_MATRIX = Unset
  /\ session = Unset
  /\ run = NoRun
  /\ reload = "idle"
  /\ produced = Unset

\* load_examples: the corpus read from the examples file
LoadExamples ==
  /\ examples = << >>
  /\ index = NoIndex
  /\ \E c \in Corpora : examples' = c
  /\ UNCHANGED <<index, call, validatorVars, appVars>>

BuildIndex ==
  /\ index = NoIndex
  /\ index' = build_index(examples)
  /\ UNCHANGED <<examples, call, validatorVars, appVars>>

\* mutant of GetTopK: the call clamps k by cutting the shared examples list
GetTopKMutating ==
  /\ index.status = "built"
  /\ call = NoCall
  /\ \E q \in Queries, k \in Ks :
       \E out \in get_top_k(q, index.vectorizer, index.matrix, examples, k) :
         /\ call' = [status |-> "done", query |-> q, k |-> k, out |-> out]
         /\ examples' = IF k >= 1 THEN Take(examples, k) ELSE examples
  /\ UNCHANGED <<index, validatorVars, appVars>>

GetTopK ==
  /\ index.status = "built"
  /\ call = NoCall
  /\ \E q \in Queries, k \in Ks :
       \E out \in get_top_k(q, index.vectorizer, index.matrix, examples, k) :
         call' = [status |-> "done", query |-> q, k |-> k, out |-> out]
  /\ UNCHANGED <<examples, index, validatorVars, appVars>>

\* the caller has used the ranked list (run_pipeline renders it); the next
\* request may rank again
ReturnResults ==
  /\ call # NoCall
  /\ call' = NoCall
  /\ UNCHANGED <<examples, index, validatorVars, appVars>>

NextRetriever == LoadExamples \/ BuildIndex \/ GetTopK \/ ReturnResults

SpecRetriever == Init /\ [][NextRetriever]_vars

(***************************************************************************)
(* JSON values and schemas of the validator.  A value is a string, a       *)
(* number or an object (a function from its keys to values).  A schema     *)
(* node lists its keywords in the order the schema's mapping holds them.   *)
(***************************************************************************)
Str(s) == [kind |-> "string", val |-> s]
Num(s) == [kind |-> "number", val |-> s]
Obj(f) == [kind |-> "object", props |-> f]
Absent == [kind |-> "absent"]

StringSchema == [keywords |-> <<"type">>, type |-> "string"]
ObjectSchema == [keywords |-> <<"type">>, type |-> "object"]
PriorityEnum == <<Str("low"), Str("medium"), Str("high")>>
PrioritySchema ==
  [keywords |-> <<"type", "enum">>, type |-> "string", enum |-> PriorityEnum]

\* the schema of validate.py's demo and of app.initialize_data
SampleSchemaWith(actionSchema, required) ==
  [keywords |-> <<"type", "properties", "required">>,
   type |-> "object",
   properties |-> << [name |-> "id", schema |-> StringSchema],
                     [name |-> "type", schema |-> StringSchema],
                     [name |-> "condition", schema |-> ObjectSchema],
                     [name |-> "action", schema |-> actionSchema],
                     [name |-> "priority", schema |-> PrioritySchema] >>,
   required |-> required]

SampleSchema == SampleSchemaWith(ObjectSchema, <<"id", "type", "action">>)

\* an action that itself requires a string "type"
NestedActionSchema ==
  [keywords |-> <<"type", "properties", "required">>,
   type |-> "object",
   properties |-> << [name |-> "type", schema |-> StringSchema] >>,
   required |-> <<"type">>]

\* schemas the metaschema rejects: an unknown type name, a required list with
\* a repeated name, a malformed schema below the root
BogusTypeSchema == [keywords |-> <<"type">>, type |-> "bogus"]

\* a schema whose "$ref" cannot be resolved
DanglingRefSchema == [keywords |-> <<"$ref">>, ref |-> "#/definitions/missing"]

Schemas ==
  { SampleSchema,
    SampleSchemaWith(ObjectSchema, << >>),
    SampleSchemaWith(ObjectSchema, <<"id">>),
    SampleSchemaWith(NestedActionSchema, <<"id", "type", "action">>),
    SampleSchemaWith(ObjectSchema, <<"id", "id">>),
    SampleSchemaWith(BogusTypeSchema, <<"id", "type", "action">>),
    BogusTypeSchema,
    DanglingRefSchema }

CandidateKeys == {"id", "type", "action", "priority", "extra"}

\* the values a key of a candidate of the model may hold
KeyValues(key) ==
  CASE key = "id" -> {Absent, Str("wf-1"), Num("7")}
    [] key = "type" -> {Absent, Str("x")}
    [] key = "action" -> {Absent, Obj(<< >>), Obj([type |-> Str("email")]), Str("x")}
    [] key = "priority" -> {Absent, Str("high"), Str("urgent")}
    [] OTHER -> {Absent, Str("y")}

Candidates ==
  { Obj([k \in {key \in CandidateKeys : choice[key] # Absent} |-> choice[k]]) :
      choice \in {c \in [CandidateKeys -> UNION {KeyValues(key) : key \in CandidateKeys}] :
                    \A key \in CandidateKeys : c[key] \in KeyValues(key)} }
  \cup {Str("x"), Num("7")}

(***************************************************************************)
(* jsonschema.validate(instance, schema): check_schema, then iter_errors   *)
(* and best_match; the best error is raised.                               *)
(***************************************************************************)
RECURSIVE Flatten(_)
Flatten(ss) == IF Len(ss) = 0 THEN << >> ELSE Head(ss) \o Flatten(Tail(ss))

SimpleTypes == {"object", "string", "number", "array", "boolean", "integer", "null"}

RECURSIVE WellFormed(_)
\* check_schema: the schema is valid against its metaschema
WellFormed(node) ==
  \A i \in 1..Len(node.keywords) :
    LET kw == node.keywords[i]
    IN CASE kw = "type" -> node.type \in SimpleTypes
         [] kw = "required" ->
              \A a, b \in 1..Len(node.required) :
                a # b => node.required[a] # node.required[b]
         [] kw = "properties" ->
              \A j \in 1..Len(node.properties) : WellFormed(node.properties[j].schema)
         [] OTHER -> TRUE

\* mutant of IsType: an empty mapping is not taken for an object
IsTypeTruthy(inst, type) ==
  /\ inst.kind = type
  /\ ~(inst.kind = "object" /\ DOMAIN inst.props = {})

IsType(inst, type) == inst.kind = type

RECURSIVE IterErrors(_, _, _)
\* validator.iter_errors: every violation, keyword by keyword in the schema's
\* order, descending into the properties the instance holds
IterErrors(inst, node, path) ==
  Flatten([i \in 1..Len(node.keywords) |->
    LET kw == node.keywords[i]
    IN CASE kw = "type" ->
              IF IsType(inst, node.type) THEN << >>
              ELSE << [path |-> path, validator |-> "type", subject |-> inst,
                       message |-> "is not of type", allowed |-> <<Str(node.type)>>] >>
         [] kw = "properties" ->
              IF inst.kind # "object" THEN << >>
              ELSE Flatten([j \in 1..Len(node.properties) |->
                     LET p == node.properties[j]
                     IN IF p.name \in DOMAIN inst.props
                        THEN IterErrors(inst.props[p.name], p.schema, Append(path, p.name))
                        ELSE << >>])
         [] kw = "required" ->
              IF inst.kind # "object" THEN << >>
              ELSE Flatten([j \in 1..Len(node.required) |->
                     IF node.required[j] \in DOMAIN inst.props THEN << >>
                     ELSE << [path |-> path, validator |-> "required",
                              subject |-> Str(node.required[j]),
                              message |-> "is a required property",
                              allowed |-> << >>] >>])
         [] kw = "enum" ->
              IF \E j \in 1..Len(node.enum) : node.enum[j] = inst THEN << >>
              ELSE << [path |-> path, validator |-> "enum", subject |-> inst,
                       message |-> "is not one of", allowed |-> node.enum] >>
         [] OTHER -> << >>])

\* best_match: the most relevant error is one of the shallowest path; errors of
\* one path and one keyword have the same relevance, and the first of them wins.
\* Between errors of the same depth the releases of jsonschema differ.
BestMatch(errors) ==
  {errors[i] : i \in {i \in 1..Len(errors) :
     /\ \A j \in 1..Len(errors) : Len(errors[i].path) <= Len(errors[j].path)
     /\ \A j \in 1..(i - 1) :
          ~(errors[j].path = errors[i].path /\ errors[j].validator = errors[i].validator)}}

\* a "$ref" that cannot be resolved raises an error that is neither a
\* ValidationError nor a SchemaError
Unresolvable(node) == \E i \in 1..Len(node.keywords) : node.keywords[i] = "$ref"

\* mutant of SchemaErrorResult: the handler reports it as a validation error
SchemaErrorAsValidation(node) ==
  [raised |-> "none", valid |-> FALSE,
   errors |-> << [prefix |-> "Validation error at path", path |-> << >>,
                  message |-> "schema is not valid under the metaschema"] >>]

\* "except SchemaError as e"
SchemaErrorResult(node) ==
  [raised |-> "none", valid |-> FALSE,
   errors |-> << [prefix |-> "Schema error",
                  message |-> "schema is not valid under the metaschema"] >>]

\* mutant of UnexpectedErrorResult: no "except Exception" clause
UnexpectedErrorPropagated(node) ==
  [raised |-> "RefResolutionError", valid |-> FALSE, errors |-> << >>]

\* "except Exception as e"
UnexpectedErrorResult(node) ==
  [raised |-> "none", valid |-> FALSE,
   errors |-> << [prefix |-> "Unexpected validation error",
                  message |-> "unresolvable reference"] >>]

\* mutant of ValidationErrorResult: the sub-errors only, the message of e
\* itself forgotten
ValidationErrorContextOnly(e, context) ==
  [raised |-> "none", valid |-> FALSE,
   errors |-> [i \in 1..Len(context) |->
                 [prefix |-> "  - Sub-error", message |-> context[i].message]]]

\* "except ValidationError as e": the message of e, then one entry per
\* sub-error of e.context (empty without anyOf / oneOf)
ValidationErrorResult(e, context) ==
  [raised |-> "none", valid |-> FALSE,
   errors |-> << [prefix |-> "Validation error at path", path |-> e.path,
                  validator |-> e.validator, subject |-> e.subject,
                  message |-> e.message, allowed |-> e.allowed] >>
              \o [i \in 1..Len(context) |->
                    [prefix |-> "  - Sub-error", message |-> context[i].message]]]

\* the names a schema node declares under "properties"
Declared(node) ==
  IF \E i \in 1..Len(node.keywords) : node.keywords[i] = "properties"
  THEN {node.properties[j].name : j \in 1..Len(node.properties)}
  ELSE {}

\* mutant of validate_output: a closed schema, every undeclared property of
\* the candidate is an error
validate_output_closed(candidate, schema) ==
  LET undeclared ==
        IF candidate.kind = "object"
        THEN {k \in DOMAIN candidate.props : k \notin Declared(schema)}
        ELSE {}
      found == IterErrors(candidate, schema, << >>)
      extra == [path |-> << >>, validator |-> "additionalProperties",
                subject |-> candidate, message |-> "has additional properties",
                allowed |-> << >>]
      all == IF undeclared = {} THEN found ELSE Append(found, extra)
  IN IF ~WellFormed(schema) THEN {SchemaErrorResult(schema)}
     ELSE IF Unresolvable(schema) THEN {UnexpectedErrorResult(schema)}
     ELSE IF all = << >>
          THEN {[raised |-> "none", valid |-> TRUE, errors |-> << >>]}
          ELSE {ValidationErrorResult(e, << >>) : e \in BestMatch(all)}

\* validate_output(candidate, schema): the (is_valid, error_list) it can return
validate_output(candidate, schema) ==
  IF ~WellFormed(schema) THEN {SchemaErrorResult(schema)}
  ELSE IF Unresolvable(schema) THEN {UnexpectedErrorResult(schema)}
  ELSE IF IterErrors(candidate, schema, << >>) = << >>
       THEN {[raised |-> "none", valid |-> TRUE, errors |-> << >>]}
       ELSE {ValidationErrorResult(e, << >>) :
               e \in BestMatch(IterErrors(candidate, schema, << >>))}

(***************************************************************************)
(* coverage_metric(candidate, schema).  The ratio is kept as the pair of   *)
(* integers of the division "present_count / len(required_fields)".        *)
(***************************************************************************)
Null == [kind |-> "null"]
Arr(items) == [kind |-> "array", items |-> items]

\* what coverage_metric may be handed: the candidates of the validator and
\* values that are no mapping
CoverageCandidates ==
  Candidates \cup {Null, Arr(<< >>), Arr(<<Str("id"), Str("type")>>), Str("id")}

\* schema.get('required', [])
RequiredFields(schema) ==
  IF "required" \in DOMAIN schema THEN schema.required ELSE << >>

\* mutant of FullCoverage: nothing required counts as nothing covered
NoCoverage == [num |-> 0, den |-> 1]

\* "return 1.0"
FullCoverage == [num |-> 1, den |-> 1]

\* Python's "in" is defined for the candidate: a mapping, a string or a list
SupportsIn(candidate) == candidate.kind \in {"object", "string", "array"}

\* mutant of Contains: "candidate.get(field)", a key holding an empty mapping
\* does not count
ContainsTruthy(candidate, field) ==
  /\ candidate.kind = "object"
  /\ field \in DOMAIN candidate.props
  /\ candidate.props[field] # Obj(<< >>)

\* "field in candidate": a key of a mapping, an element of a list, a
\* substring of a string (of the strings of the model only the equal one
\* contains a required name)
Contains(candidate, field) ==
  CASE candidate.kind = "object" -> field \in DOMAIN candidate.props
    [] candidate.kind = "array" ->
         \E i \in 1..Len(candidate.items) : candidate.items[i] = Str(field)
    [] candidate.kind = "string" -> candidate.val = field
    [] OTHER -> FALSE

coverage_metric(candidate, schema) ==
  LET required_fields == RequiredFields(schema)
  IN IF Len(required_fields) = 0
     THEN [raised |-> "none", ratio |-> FullCoverage]
     ELSE IF ~SupportsIn(candidate)
          THEN [raised |-> "TypeError"]
          ELSE [raised |-> "none",
                ratio |-> [num |-> Cardinality({i \in 1..Len(required_fields) :
                                                  Contains(candidate, required_fields[i])}),
                           den |-> Len(required_fields)]]

(***************************************************************************)
(* The validator as a state machine: the caller makes one call at a time,  *)
(* of validate_output or of coverage_metric.                               *)
(***************************************************************************)
ValidateOutput ==
  /\ vcall = NoVCall
  /\ ccall = NoCCall
  /\ \E c \in Candidates, sch \in Schemas :
       \E out \in validate_output(c, sch) :
         vcall' = [status |-> "done", candidate |-> c, schema |-> sch, out |-> out]
  /\ UNCHANGED <<examples, index, call, ccall, appVars>>

\* the caller has rendered the verdict
ReturnVerdict ==
  /\ vcall # NoVCall
  /\ vcall' = NoVCall
  /\ UNCHANGED <<examples, index, call, ccall, appVars>>

CoverageMetric ==
  /\ vcall = NoVCall
  /\ ccall = NoCCall
  /\ \E c \in CoverageCandidates, sch \in Schemas :
       ccall' = [status |-> "done", candidate |-> c, schema |-> sch,
                 out |-> coverage_metric(c, sch)]
  /\ UNCHANGED <<examples, index, call, vcall, appVars>>

\* the caller has rendered the ratio
ReturnCoverage ==
  /\ ccall # NoCCall
  /\ ccall' = NoCCall
  /\ UNCHANGED <<examples, index, call, vcall, appVars>>

NextValidator == ValidateOutput \/ ReturnVerdict \/ CoverageMetric \/ ReturnCoverage

SpecValidator == Init /\ [][NextValidator]_vars

(***************************************************************************)
(* The programs: app.py (initialize_data, then the Flask server and its    *)
(* route handlers) and demo.py (one pipeline run).                         *)
(***************************************************************************)
PipelineK == 3

Bool(b) == [kind |-> "boolean", val |-> b]

\* data/schema.json, or the default schema when the file is missing
AppSchemas == {SampleSchema, SampleSchemaWith(ObjectSchema, << >>)}

WithId(id, example) ==
  [id |-> id, title |-> example.title, description |-> example.description,
   config |-> example.config]

\* the default examples of initialize_data: one example
DefaultExamples ==
  << WithId("ex-001", [title |-> "Email", description |-> "email", config |-> EmptyConfig]) >>

\* data/examples.json: some examples, examples without "id", examples without
\* any token, an empty list; or the default examples when the file is missing
AppCorpora ==
  { DefaultExamples,
    << WithId("ex-001", [title |-> "Email", description |-> "", config |-> EmptyConfig]),
       WithId("ex-002", [title |-> "task", description |-> "email", config |-> EmptyConfig]) >>,
    << [title |-> "task", description |-> "", config |-> EmptyConfig] >>,
    << WithId("ex-001", [title |-> "", description |-> "", config |-> EmptyConfig]) >>,
    << >> }

\* request.form.get('query', ''): " " stands for a run of white space
FormQueries == {<< >>, <<" ">>, <<"email">>, <<" ", "task", " ">>, <<"zzz">>}

RECURSIVE lstrip(_)
lstrip(text) ==
  IF Len(text) > 0 /\ Head(text) = " " THEN lstrip(Tail(text)) ELSE text

RECURSIVE rstrip(_)
rstrip(text) ==
  IF Len(text) > 0 /\ text[Len(text)] = " "
  THEN rstrip(SubSeq(text, 1, Len(text) - 1))
  ELSE text

\* str.strip()
strip(text) == rstrip(lstrip(text))

\* the query demo.main asks, as the words of it the corpora of the model know
DemoQuery == <<"email", "task">>

\* a text the model (or json.dumps) produced: empty, or JSON text of a value
\* (possibly inside a markdown code fence), or text that is no JSON
EmptyText == [kind |-> "empty"]
GarbageText == [kind |-> "garbage", fenced |-> FALSE]
JsonText(value) == [kind |-> "json", fenced |-> FALSE, value |-> value]
Fenced(text) == [text EXCEPT !.fenced = TRUE]

\* simulated_output of run_pipeline, and fake_response_json of demo.main
SimulatedOutput ==
  Obj([k \in {"nodeType", "conditions", "actions", "priority", "enabled"} |->
         CASE k = "nodeType" -> Str("notification")
           [] k = "conditions" -> Arr(<<Obj([field |-> Str("status")])>>)
           [] k = "actions" -> Arr(<<Obj([type |-> Str("email")])>>)
           [] k = "priority" -> Str("high")
           [] OTHER -> Bool("true")])

DemoSimulatedOutput ==
  Obj([k \in {"id", "type", "condition", "action", "priority"} |->
         CASE k = "id" -> Str("wf-email-duration")
           [] k = "type" -> Str("notification")
           [] k = "condition" -> Obj([field |-> Str("duration")])
           [] k = "action" -> Obj([type |-> Str("email")])
           [] OTHER -> Str("high")])

\* what a model may answer
LlmTexts ==
  { JsonText(Obj([k \in {"id", "type", "action"} |->
                    CASE k = "id" -> Str("wf-1")
                      [] k = "type" -> Str("x")
                      [] OTHER -> Obj(<< >>)])),
    Fenced(JsonText(Obj([priority |-> Str("urgent")]))),
    JsonText(Obj(<< >>)),
    JsonText(Arr(<< >>)),
    JsonText(Num("7")),
    GarbageText,
    Fenced(GarbageText),
    EmptyText }

\* call_llm: offline without an API key, an error entry on a failed request,
\* the text of the answer otherwise
LlmResults ==
  { [offline |-> TRUE, error |-> FALSE, text |-> EmptyText],
    [offline |-> FALSE, error |-> TRUE, text |-> EmptyText] }
  \cup {[offline |-> FALSE, error |-> FALSE, text |-> t] : t \in LlmTexts}

\* parse_llm_text_to_json: (parsed, error); the fence is stripped, the text
\* is parsed, anything but an object is refused
parse_llm_text_to_json(text) ==
  IF text.kind = "empty"
  THEN [parsed |-> Null, error |-> "Empty text provided"]
  ELSE IF text.kind = "garbage"
       THEN [parsed |-> Null, error |-> "JSON parsing error"]
       ELSE IF text.value.kind # "object"
            THEN [parsed |-> Null, error |-> "Parsed JSON is not an object"]
            ELSE [parsed |-> text.value, error |-> "none"]

Set(value) == [set |-> TRUE, value |-> value]

\* mutant of CoverageStep: coverage is computed for a valid output only
CoverageStepIfValid(is_valid, candidate, schema) ==
  IF is_valid
  THEN << [fn |-> "coverage_metric", candidate |-> candidate, schema |-> schema,
           out |-> coverage_metric(candidate, schema)] >>
  ELSE << >>

\* "coverage = coverage_metric(parsed_output, SCHEMA)", the statement after
\* the call of validate_output
CoverageStep(is_valid, candidate, schema) ==
  << [fn |-> "coverage_metric", candidate |-> candidate, schema |-> schema,
      out |-> coverage_metric(candidate, schema)] >>

\* the calls a pipeline makes once the output is parsed, in their order
ValidateAndCover(candidate, schema) ==
  { << [fn |-> "validate_output", candidate |-> candidate, schema |-> schema,
        out |-> verdict] >>
    \o CoverageStep(verdict.valid, candidate, schema)
    : verdict \in validate_output(candidate, schema) }

RankingCall(query, top) ==
  [fn |-> "get_top_k", query |-> query, k |-> PipelineK, out |-> top]

\* the arguments run_pipeline hands to get_top_k: the globals as they are
\* when the call is made
Snapshot ==
  [vectorizer |-> VECTORIZER.value, matrix |-> TFIDF_MATRIX.value,
   examples |-> EXAMPLES.value]

\* example['id'] of a retrieved example
LacksId(top) ==
  \E j \in 1..Len(top.results) : "id" \notin DOMAIN top.results[j].example

(***************************************************************************)
(* initialize_data, statement by statement, then app.run                   *)
(***************************************************************************)
LoadSchema ==
  /\ pc = "main"
  /\ \E schema \in AppSchemas : SCHEMA' = Set(schema)
  /\ pc' = "schema"
  /\ UNCHANGED <<examples, index, call, validatorVars, reload, produced,
                 EXAMPLES, VECTORIZER, TFIDF_MATRIX, session, run>>

LoadAppExamples ==
  /\ pc = "schema"
  /\ \E corpus \in AppCorpora : EXAMPLES' = Set(corpus)
  /\ pc' = "examples"
  /\ UNCHANGED <<examples, index, call, validatorVars, reload, produced,
                 SCHEMA, VECTORIZER, TFIDF_MATRIX, session, run>>

\* "VECTORIZER, TFIDF_MATRIX, _ = build_index(EXAMPLES)": an exception of
\* build_index ends the program before the server starts
BuildAppIndex ==
  /\ pc = "examples"
  /\ LET built == build_index(EXAMPLES.value)
     IN IF built.status = "raised"
        THEN /\ pc' = "crashed"
             /\ UNCHANGED <<VECTORIZER, TFIDF_MATRIX>>
        ELSE /\ pc' = "initialized"
             /\ VECTORIZER' = Set(built.vectorizer)
             /\ TFIDF_MATRIX' = Set(built.matrix)
  /\ UNCHANGED <<examples, index, call, validatorVars, reload, produced, SCHEMA, EXAMPLES, session, run>>

\* app.run(...): from here on requests are handled
AppRun ==
  /\ pc = "initialized"
  /\ pc' = "serving"
  /\ UNCHANGED <<examples, index, call, validatorVars, reload, produced,
                 SCHEMA, EXAMPLES, VECTORIZER, TFIDF_MATRIX, session, run>>

\* mutant of Serving: the routes answer as soon as the module is loaded
ServingOnImport == pc \in {"main", "schema", "examples", "initialized", "serving"}

\* the server of app.run is the only one that hands requests to the routes
Serving == pc = "serving"

(***************************************************************************)
(* The route handlers.  Each handles one request from start to end.        *)
(***************************************************************************)
Home ==
  /\ Serving
  /\ run' = IF EXAMPLES.set
            THEN [handler |-> "home", status |-> 200, raised |-> "none",
                  num_examples |-> Len(EXAMPLES.value)]
            ELSE [handler |-> "home", status |-> 500, raised |-> "TypeError"]
  /\ UNCHANGED <<examples, index, call, validatorVars, reload, produced,
                 pc, SCHEMA, EXAMPLES, VECTORIZER, TFIDF_MATRIX, session>>

RunPipeline ==
  /\ Serving
  /\ \E form \in FormQueries, llm_result \in LlmResults :
       LET query == strip(form)
       IN IF query = << >>
          THEN /\ run' = [handler |-> "run_pipeline", status |-> 400,
                          raised |-> "none", calls |-> << >>]
               /\ UNCHANGED <<session, produced>>
          ELSE IF ~EXAMPLES.set \/ ~VECTORIZER.set \/ ~TFIDF_MATRIX.set
          THEN \* get_top_k on None: len(None), None.transform
               /\ run' = [handler |-> "run_pipeline", status |-> 500,
                          raised |-> "TypeError", calls |-> << >>]
               /\ UNCHANGED <<session, produced>>
          ELSE \E top \in get_top_k(query, VECTORIZER.value, TFIDF_MATRIX.value,
                                    EXAMPLES.value, PipelineK) :
                 IF top.raised # "none"
                 THEN /\ run' = [handler |-> "run_pipeline", status |-> 500,
                                 raised |-> "IndexError", snapshot |-> Snapshot,
                                 calls |-> <<RankingCall(query, top)>>]
                      /\ UNCHANGED <<session, produced>>
                 ELSE IF LacksId(top)
                 THEN /\ run' = [handler |-> "run_pipeline", status |-> 500,
                                 raised |-> "KeyError", snapshot |-> Snapshot,
                                 calls |-> <<RankingCall(query, top)>>]
                      /\ UNCHANGED <<session, produced>>
                 ELSE LET llm_response_text ==
                            IF llm_result.offline THEN JsonText(SimulatedOutput)
                            ELSE llm_result.text
                          parsed == parse_llm_text_to_json(llm_response_text)
                          parsed_output ==
                            IF parsed.error # "none" THEN Obj(<< >>) ELSE parsed.parsed
                      IN \E calls \in ValidateAndCover(parsed_output, SCHEMA.value) :
                           /\ run' = [handler |-> "run_pipeline", status |-> 200,
                                      raised |-> "none", snapshot |-> Snapshot,
                                      calls |-> <<RankingCall(query, top)>> \o calls]
                           /\ session' = Set(parsed_output)
                           /\ produced' = IF parsed.error = "none"
                                          THEN Set(parsed.parsed) ELSE produced
  /\ UNCHANGED <<examples, index, call, validatorVars, reload,
                 pc, SCHEMA, EXAMPLES, VECTORIZER, TFIDF_MATRIX>>

\* session.get('last_output', {}); an empty mapping is "not output"
DownloadJson ==
  /\ Serving
  /\ LET output == IF session.set THEN session.value ELSE Obj(<< >>)
     IN run' = IF output = Obj(<< >>)
               THEN [handler |-> "download_json", status |-> 404, raised |-> "none"]
               ELSE [handler |-> "download_json", status |-> 200, raised |-> "none",
                     body |-> output]
  /\ UNCHANGED <<examples, index, call, validatorVars, reload, produced,
                 pc, SCHEMA, EXAMPLES, VECTORIZER, TFIDF_MATRIX, session>>

(***************************************************************************)
(* demo.py: main() loads its own schema and examples and runs the pipeline *)
(* once.                                                                   *)
(***************************************************************************)
DemoMain ==
  /\ pc = "main"
  /\ \E schema \in AppSchemas, corpus \in AppCorpora, llm_result \in LlmResults :
       LET built == build_index(corpus)
       IN IF built.status = "raised"
          THEN run' = [handler |-> "demo.main", status |-> 1,
                       raised |-> "ValueError", calls |-> << >>]
          ELSE \E top \in get_top_k(DemoQuery, built.vectorizer, built.matrix,
                                    corpus, PipelineK) :
                 IF LacksId(top)
                 THEN run' = [handler |-> "demo.main", status |-> 1,
                              raised |-> "KeyError",
                              calls |-> <<RankingCall(DemoQuery, top)>>]
                 ELSE LET fake_response ==
                            IF llm_result.offline THEN JsonText(DemoSimulatedOutput)
                            ELSE IF llm_result.error THEN JsonText(Obj(<< >>))
                            ELSE llm_result.text
                          parsed == parse_llm_text_to_json(fake_response)
                      IN IF parsed.error # "none"
                         THEN \* "Validation cannot proceed without valid JSON"
                              run' = [handler |-> "demo.main", status |-> 0,
                                      raised |-> "none",
                                      calls |-> <<RankingCall(DemoQuery, top)>>]
                         ELSE \E calls \in ValidateAndCover(parsed.parsed, schema) :
                                run' = [handler |-> "demo.main", status |-> 0,
                                        raised |-> "none",
                                        calls |-> <<RankingCall(DemoQuery, top)>> \o calls]
  /\ pc' = "exited"
  /\ UNCHANGED <<examples, index, call, validatorVars, reload, produced,
                 SCHEMA, EXAMPLES, VECTORIZER, TFIDF_MATRIX, session>>

NextApp ==
  \/ LoadSchema \/ LoadAppExamples \/ BuildAppIndex \/ AppRun
  \/ Home \/ RunPipeline \/ DownloadJson
  \/ DemoMain

SpecApp == Init /\ [][NextApp]_vars

(***************************************************************************)
(* A reload of the corpus: initialize_data called once more, on a thread   *)
(* of its own, while the server handles requests.  Its statements run one  *)
(* by one between the requests.                                            *)
(***************************************************************************)
ReloadSchema ==
  /\ Serving
  /\ reload = "idle"
  /\ \E schema \in AppSchemas : SCHEMA' = Set(schema)
  /\ reload' = "schema"
  /\ UNCHANGED <<examples, index, call, validatorVars, produced,
                 pc, EXAMPLES, VECTORIZER, TFIDF_MATRIX, session, run>>

ReloadExamples ==
  /\ reload = "schema"
  /\ \E corpus \in AppCorpora : EXAMPLES' = Set(corpus)
  /\ reload' = "examples"
  /\ UNCHANGED <<examples, index, call, validatorVars, produced,
                 pc, SCHEMA, VECTORIZER, TFIDF_MATRIX, session, run>>

\* an exception of build_index ends the reloading thread, not the server
ReloadIndex ==
  /\ reload = "examples"
  /\ LET built == build_index(EXAMPLES.value)
     IN IF built.status = "raised"
        THEN UNCHANGED <<VECTORIZER, TFIDF_MATRIX>>
        ELSE /\ VECTORIZER' = Set(built.vectorizer)
             /\ TFIDF_MATRIX' = Set(built.matrix)
  /\ reload' = "done"
  /\ UNCHANGED <<examples, index, call, validatorVars, produced,
                 pc, SCHEMA, EXAMPLES, session, run>>

\* the server with its ranking requests, and the reload beside them
NextReload ==
  \/ LoadSchema \/ LoadAppExamples \/ BuildAppIndex \/ AppRun
  \/ RunPipeline
  \/ ReloadSchema \/ ReloadExamples \/ ReloadIndex

SpecReload == Init /\ [][NextReload]_vars

(***************************************************************************)
(* Properties of the retriever.                                            *)
(***************************************************************************)
Returned == call.status = "done" /\ call.out.returned

Results == call.out.results

\* the exact similarity of corpus position i to the query of the last call
SimOf(i) == Similarity(Transform(index.vectorizer, call.query), index.matrix[i])

SimTie(i, j) == SimLeq(SimOf(i), SimOf(j)) /\ SimLeq(SimOf(j), SimOf(i))

ReturnedPositions == {Results[j].idx : j \in 1..Len(Results)}

\* C1: the list get_top_k returns is sorted by non-increasing score
C1_SortedByScore ==
  Returned =>
    \A i, j \in 1..Len(Results) : i < j => Results[i].score >= Results[j].score

C1_Witness ==
  /\ Returned
  /\ Len(Results) >= 3
  /\ Results[1].score > Results[2].score
  /\ Results[2].score > Results[3].score

\* C2: documents of equal similarity come out in corpus order, and of equal
\* documents cut off by k the earlier ones are kept
C2_TiesInCorpusOrder ==
  Returned =>
    /\ \A i, j \in 1..Len(Results) :
         (i < j /\ SimTie(Results[i].idx, Results[j].idx))
           => Results[i].idx < Results[j].idx
    /\ \A j \in 1..Len(Results) : \A m \in 1..Len(examples) :
         (m \notin ReturnedPositions /\ SimTie(m, Results[j].idx))
           => Results[j].idx < m

\* C3: for k >= 1 get_top_k returns normally, exactly min(k, n) results
C3_LengthMinKN ==
  (call.status = "done" /\ call.k >= 1) =>
    /\ call.out.returned
    /\ call.out.raised = "none"
    /\ Len(Results) = Min2(call.k, Len(examples))

C3_Witness ==
  /\ Returned
  /\ call.k > Len(examples)
  /\ Len(Results) = Len(examples)
  /\ Len(examples) >= 2

\* C4: no corpus position is returned twice, every returned document is the
\* corpus document at its position, and k >= n returns every position
C4_NoDuplicates ==
  Returned =>
    /\ \A i, j \in 1..Len(Results) : i # j => Results[i].idx # Results[j].idx
    /\ \A j \in 1..Len(Results) :
         /\ Results[j].idx \in 1..Len(examples)
         /\ Results[j].example = examples[Results[j].idx]
    /\ call.k >= Len(examples) => ReturnedPositions = 1..Len(examples)

C4_Witness ==
  /\ Returned
  /\ call.k >= Len(examples)
  /\ Len(examples) = MaxDocs
  /\ examples[1] = examples[2]
  /\ ReturnedPositions = 1..MaxDocs

\* C5: k < 1 raises the k error before the query is encoded; nothing is returned
C5_InvalidKRaises ==
  (call.status = "done" /\ call.k < 1) =>
    /\ call.out.raised = "ValueError: k must be at least 1"
    /\ ~call.out.encoded
    /\ ~call.out.returned
    /\ Results = << >>

C5_Witness ==
  /\ call.status = "done"
  /\ call.k = 0
  /\ call.out.raised = "ValueError: k must be at least 1"

\* C6: build_index of an empty corpus raises the empty-corpus error to its
\* caller and yields no vocabulary and no document vectors
C6_EmptyCorpusRaises ==
  (examples = << >> /\ index # NoIndex) =>
    index = [status |-> "raised",
             error |-> "ValueError: Examples list cannot be empty"]

C6_Witness ==
  /\ examples = << >>
  /\ index.status = "raised"
  /\ "vectorizer" \notin DOMAIN index

\* the positions whose indexed text is exactly the query of the last call
QueriedDocs == {i \in 1..Len(examples) : to_text(examples[i]) = call.query}

\* two rows with terms that point the same way (cosine 1)
SameDirection(u, v) ==
  /\ Norm2(u) > 0
  /\ Norm2(v) > 0
  /\ \A s, t \in DOMAIN u : u[s] * v[t] = u[t] * v[s]

\* C7 as stated: the query to_text(d) returns d at rank 1 with the maximal
\* score, unless a document with identical text is ranked before it
C7_SelfRankedFirst ==
  Returned =>
    \A d \in QueriedDocs :
      /\ \/ Results[1].idx = d
         \/ to_text(examples[Results[1].idx]) = to_text(examples[d])
      /\ \A j \in 1..Len(Results) : Results[j].score <= Results[1].score

\* C7 amended: the query to_text(d) returns at rank 1 a document whose score
\* is d's own score, maximal over the corpus; d is displaced from rank 1 only
\* by a document tied with it: one whose terms have the same proportions, or
\* any document when d's text holds no token
C7_SelfScoreMaximal ==
  Returned =>
    \A d \in QueriedDocs :
      /\ Results[1].score =
           RoundScore(Transform(index.vectorizer, call.query), index.matrix[d])
      /\ \A j \in 1..Len(Results) : Results[j].score <= Results[1].score
      /\ \A m \in 1..Len(examples) : SimLeq(SimOf(m), SimOf(d))
      /\ \/ Results[1].idx = d
         \/ SameDirection(index.matrix[Results[1].idx], index.matrix[d])
         \/ Norm2(index.matrix[d]) = 0

C7_Witness ==
  /\ Returned
  /\ \E d \in QueriedDocs :
       /\ Results[1].idx # d
       /\ to_text(examples[Results[1].idx]) # to_text(examples[d])
       /\ Norm2(index.matrix[d]) > 0
       /\ Results[1].score = ScoreScale
       /\ \E m \in 1..Len(examples) : ~SimLeq(SimOf(d), SimOf(m))

(***************************************************************************)
(* Properties of the validator.                                            *)
(***************************************************************************)
Validated == vcall.status = "done"

\* the call reached the traversal of the candidate: the schema is sound
Traversed ==
  Validated /\ WellFormed(vcall.schema) /\ ~Unresolvable(vcall.schema)

Verdict == vcall.out

\* the required names of the root schema that the candidate lacks
MissingRequired ==
  IF vcall.candidate.kind = "object" /\ "required" \in DOMAIN vcall.schema
  THEN {vcall.schema.required[i] : i \in 1..Len(vcall.schema.required)}
         \ DOMAIN vcall.candidate.props
  ELSE {}

\* C8: a candidate lacking several required properties gets isValid = false
\* and one error entry per missing property
C8_EveryMissingReported ==
  (Traversed /\ Cardinality(MissingRequired) >= 2) =>
    /\ ~Verdict.valid
    /\ \A name \in MissingRequired :
         Cardinality({i \in 1..Len(Verdict.errors) :
                        /\ Verdict.errors[i].validator = "required"
                        /\ Verdict.errors[i].subject = Str(name)}) = 1

\* C9: every violation of the candidate has its entry, in the order of the
\* depth-first traversal
C9_AllViolationsCollected ==
  Traversed =>
    LET all == IterErrors(vcall.candidate, vcall.schema, << >>)
    IN /\ Len(Verdict.errors) = Len(all)
       /\ \A i \in 1..Len(all) :
            /\ Verdict.errors[i].path = all[i].path
            /\ Verdict.errors[i].validator = all[i].validator
            /\ Verdict.errors[i].subject = all[i].subject

\* C10 as stated: a malformed schema is signalled as a SchemaError, never as
\* the result (isValid = false, error list) of a failing candidate
C10_SchemaErrorRaised ==
  (Validated /\ ~WellFormed(vcall.schema)) =>
    ~(Verdict.raised = "none" /\ ~Verdict.valid /\ Len(Verdict.errors) >= 1)

\* C10 amended: a malformed schema is reported in the result, as isValid =
\* false with the single entry "Schema error: ..."; no entry of a call with a
\* sound schema carries that prefix
C10_SchemaErrorInBand ==
  Validated =>
    /\ Verdict.raised = "none"
    /\ ~WellFormed(vcall.schema) =>
         /\ ~Verdict.valid
         /\ Len(Verdict.errors) = 1
         /\ Verdict.errors[1].prefix = "Schema error"
    /\ WellFormed(vcall.schema) =>
         \A i \in 1..Len(Verdict.errors) : Verdict.errors[i].prefix # "Schema error"

C10_Witness ==
  /\ Validated
  /\ ~WellFormed(vcall.schema)
  /\ vcall.schema.type = "object"
  /\ vcall.candidate.kind = "object"
  /\ {"id", "type", "action"} \subseteq DOMAIN vcall.candidate.props
  /\ Verdict.errors[1].prefix = "Schema error"

\* C11: validate_output always returns a verdict, no exception reaches the
\* caller, and a fault that is neither a validation nor a schema error gives
\* isValid = false with one generic entry
C11_NeverPropagates ==
  Validated =>
    /\ Verdict.raised = "none"
    /\ Verdict.valid \in BOOLEAN
    /\ (WellFormed(vcall.schema) /\ Unresolvable(vcall.schema)) =>
         /\ ~Verdict.valid
         /\ Len(Verdict.errors) = 1
         /\ Verdict.errors[1].prefix = "Unexpected validation error"

C11_Witness ==
  /\ Validated
  /\ vcall.schema = DanglingRefSchema
  /\ vcall.candidate.kind = "object"
  /\ Verdict.raised = "none"
  /\ Verdict.errors[1].prefix = "Unexpected validation error"

RECURSIVE Conforms(_, _)
\* the instance has the declared type, holds every required property, is a
\* member of a declared enum, and its declared properties conform in turn
Conforms(inst, node) ==
  \A i \in 1..Len(node.keywords) :
    LET kw == node.keywords[i]
    IN CASE kw = "type" -> inst.kind = node.type
         [] kw = "required" ->
              inst.kind = "object" =>
                \A j \in 1..Len(node.required) : node.required[j] \in DOMAIN inst.props
         [] kw = "properties" ->
              inst.kind = "object" =>
                \A j \in 1..Len(node.properties) :
                  node.properties[j].name \in DOMAIN inst.props =>
                    Conforms(inst.props[node.properties[j].name],
                             node.properties[j].schema)
         [] kw = "enum" -> \E j \in 1..Len(node.enum) : node.enum[j] = inst
         [] OTHER -> TRUE

\* C12: a candidate with every required property whose present properties
\* have their declared types and enum values is valid, with no error
C12_ConformingIsValid ==
  (Traversed /\ Conforms(vcall.candidate, vcall.schema)) =>
    Verdict = [raised |-> "none", valid |-> TRUE, errors |-> << >>]

C12_Witness ==
  /\ Validated
  /\ vcall.schema = SampleSchema
  /\ vcall.candidate =
       Obj([k \in {"id", "type", "action"} |->
              CASE k = "id" -> Str("wf-1")
                [] k = "type" -> Str("x")
                [] OTHER -> Obj(<< >>)])
  /\ Verdict.valid
  /\ Verdict.errors = << >>

PropertySchema(node, name) ==
  node.properties[CHOOSE j \in 1..Len(node.properties) :
                    node.properties[j].name = name].schema

RECURSIVE Strip(_, _)
\* the instance without the properties the schema does not declare
Strip(inst, node) ==
  IF inst.kind # "object" THEN inst
  ELSE Obj([k \in DOMAIN inst.props \cap Declared(node) |->
              Strip(inst.props[k], PropertySchema(node, k))])

RECURSIVE ErrorOfSchema(_, _, _)
\* the error entry stems from a keyword of the schema node its path leads to
ErrorOfSchema(node, path, validator) ==
  IF path = << >>
  THEN \E i \in 1..Len(node.keywords) : node.keywords[i] = validator
  ELSE /\ Head(path) \in Declared(node)
       /\ ErrorOfSchema(PropertySchema(node, Head(path)), Tail(path), validator)

\* C13: undeclared properties never produce an error: every reported error
\* stems from a declared keyword, and a candidate that is valid without its
\* undeclared properties is valid, with no error, with them
C13_ExtrasPermitted ==
  (Traversed /\ Strip(vcall.candidate, vcall.schema) # vcall.candidate) =>
    /\ \A i \in 1..Len(Verdict.errors) :
         ErrorOfSchema(vcall.schema, Verdict.errors[i].path, Verdict.errors[i].validator)
    /\ Conforms(Strip(vcall.candidate, vcall.schema), vcall.schema) =>
         (Verdict.valid /\ Verdict.errors = << >>)

C13_Witness ==
  /\ Traversed
  /\ vcall.schema = SampleSchema
  /\ vcall.candidate.kind = "object"
  /\ "extra" \in DOMAIN vcall.candidate.props
  /\ Conforms(Strip(vcall.candidate, vcall.schema), vcall.schema)
  /\ Verdict.valid
  /\ Verdict.errors = << >>

\* the candidate holds a "priority" outside the enum the schema declares
PriorityOutsideEnum ==
  /\ Traversed
  /\ vcall.candidate.kind = "object"
  /\ "priority" \in DOMAIN vcall.candidate.props
  /\ "priority" \in Declared(vcall.schema)
  /\ \A j \in 1..Len(PriorityEnum) : PriorityEnum[j] # vcall.candidate.props["priority"]

\* C14: a value outside the enum of its property gives isValid = false and
\* exactly one error entry for that property, naming the value and listing
\* every allowed value
C14_EnumViolationReported ==
  PriorityOutsideEnum =>
    /\ ~Verdict.valid
    /\ Cardinality({i \in 1..Len(Verdict.errors) :
                      /\ Verdict.errors[i].path = <<"priority">>
                      /\ Verdict.errors[i].validator = "enum"
                      /\ Verdict.errors[i].subject = vcall.candidate.props["priority"]
                      /\ Verdict.errors[i].allowed = PriorityEnum}) = 1

(***************************************************************************)
(* Properties of coverage_metric.                                          *)
(***************************************************************************)
Covered == ccall.status = "done"

Coverage == ccall.out

\* the required names as the schema's mapping holds them, absent or present
RequiredNames ==
  IF "required" \in DOMAIN ccall.schema
  THEN {ccall.schema.required[i] : i \in 1..Len(ccall.schema.required)}
  ELSE {}

\* C15: with no required top-level field (absent or empty) coverage_metric
\* returns exactly 1.0, whatever the candidate
C15_NoRequiredIsFull ==
  (Covered /\ RequiredNames = {}) =>
    /\ Coverage.raised = "none"
    /\ Coverage.ratio.num = Coverage.ratio.den
    /\ Coverage.ratio.den = 1

C15_Witness ==
  /\ Covered
  /\ "required" \in DOMAIN ccall.schema
  /\ ccall.schema.required = << >>
  /\ ccall.candidate = Obj(<< >>)
  /\ Coverage.ratio = [num |-> 1, den |-> 1]

\* C16: with a non-empty required list the ratio of a mapping is the number
\* of required names among its keys over the number of required names,
\* whatever the values; it lies in [0, 1] and is 1 exactly when every
\* required name is a key
C16_RatioOfPresent ==
  (Covered /\ RequiredNames # {} /\ ccall.candidate.kind = "object") =>
    LET required == ccall.schema.required
        keys == DOMAIN ccall.candidate.props
    IN /\ Coverage.raised = "none"
       /\ Coverage.ratio.den = Len(required)
       /\ Coverage.ratio.num = Cardinality({i \in 1..Len(required) : required[i] \in keys})
       /\ (Cardinality(RequiredNames) = Len(required)) =>
            /\ Coverage.ratio.num = Cardinality(RequiredNames \cap keys)
            /\ Coverage.ratio.den = Cardinality(RequiredNames)
       /\ 0 <= Coverage.ratio.num
       /\ Coverage.ratio.num <= Coverage.ratio.den
       /\ (Coverage.ratio.num = Coverage.ratio.den) <=> (RequiredNames \subseteq keys)

\* two of three required names present, one of them with a value of the
\* wrong type
C16_Witness ==
  /\ Covered
  /\ ccall.schema = SampleSchema
  /\ ccall.candidate.kind = "object"
  /\ DOMAIN ccall.candidate.props \cap {"id", "type", "action"} = {"id", "action"}
  /\ ccall.candidate.props["id"] = Num("7")
  /\ ccall.candidate.props["action"] = Obj(<< >>)
  /\ Coverage.ratio = [num |-> 2, den |-> 3]

\* C20: neither validate_output nor coverage_metric raises; coverage_metric
\* returns a ratio in [0, 1] for every candidate, mapping or not
C20_CoverageNeverRaises ==
  /\ Validated => Verdict.raised = "none"
  /\ Covered =>
       /\ Coverage.raised = "none"
       /\ 0 <= Coverage.ratio.num
       /\ Coverage.ratio.num <= Coverage.ratio.den

(***************************************************************************)
(* The frame of get_top_k.                                                 *)
(***************************************************************************)
\* C19: once build_index has produced the index, no step, and so no call of
\* get_top_k, failing ones included, changes the vocabulary, the document
\* vectors or the examples list
C19_IndexUnchanged ==
  [][(index.status = "built") => (index' = index /\ examples' = examples)]_vars

\* a call that raised, made on a full corpus, has left the index alone
C19_Witness ==
  /\ call.status = "done"
  /\ call.out.raised # "none"
  /\ Len(examples) = MaxDocs
  /\ index = build_index(examples)

(***************************************************************************)
(* Properties of the programs.                                             *)
(***************************************************************************)
PipelineRan == run.handler \in {"run_pipeline", "demo.main"}

HandlerRan == run.handler \in {"home", "run_pipeline", "download_json"}

\* C17: in a pipeline run every call of validate_output is followed by a
\* call of coverage_metric on the same candidate and schema, whatever the
\* verdict, and the ratio is the one of that candidate and schema alone
C17_CoverageAfterValidate ==
  PipelineRan =>
    \A i \in 1..Len(run.calls) :
      run.calls[i].fn = "validate_output" =>
        \E j \in (i + 1)..Len(run.calls) :
          /\ run.calls[j].fn = "coverage_metric"
          /\ run.calls[j].candidate = run.calls[i].candidate
          /\ run.calls[j].schema = run.calls[i].schema
          /\ run.calls[j].out = coverage_metric(run.calls[i].candidate, run.calls[i].schema)

\* an invalid output, none of its three required fields present, covered 0/3
C17_Witness ==
  /\ run.handler = "run_pipeline"
  /\ Len(run.calls) = 3
  /\ run.calls[2].fn = "validate_output"
  /\ ~run.calls[2].out.valid
  /\ run.calls[3].fn = "coverage_metric"
  /\ run.calls[3].out.ratio = [num |-> 0, den |-> 3]

\* C18: no request handler runs before initialize_data has assigned SCHEMA,
\* EXAMPLES, VECTORIZER and TFIDF_MATRIX
C18_InitBeforeRequests ==
  HandlerRan =>
    /\ SCHEMA.set
    /\ EXAMPLES.set
    /\ VECTORIZER.set
    /\ TFIDF_MATRIX.set
    /\ run.raised # "TypeError"

C18_Witness ==
  /\ run.handler = "run_pipeline"
  /\ run.status = 200
  /\ SCHEMA.set /\ EXAMPLES.set /\ VECTORIZER.set /\ TFIDF_MATRIX.set
  /\ [vocabulary |-> VECTORIZER.value.vocabulary] =
       [vocabulary |-> build_index(EXAMPLES.value).vectorizer.vocabulary]

(***************************************************************************)
(* Kind mismatches and the agreement of the verdict with its error list.   *)
(***************************************************************************)
\* the paths at which the schema declares an object and the candidate holds
\* a scalar: the root, or a declared property the candidate holds
MismatchPaths ==
  IF ~Traversed \/ vcall.schema.type # "object" THEN {}
  ELSE IF vcall.candidate.kind # "object" THEN {<< >>}
  ELSE {<<name>> : name \in
          {n \in Declared(vcall.schema) \cap DOMAIN vcall.candidate.props :
             /\ PropertySchema(vcall.schema, n).type = "object"
             /\ vcall.candidate.props[n].kind # "object"}}

IsPrefix(p, q) == Len(p) <= Len(q) /\ SubSeq(q, 1, Len(p)) = p

\* C22: a scalar where the schema declares an object gets exactly one error
\* entry, at its own path, and none below that path
C22_KindMismatchOneError ==
  \A path \in MismatchPaths :
    /\ Cardinality({i \in 1..Len(Verdict.errors) :
                      /\ Verdict.errors[i].path = path
                      /\ Verdict.errors[i].validator = "type"}) = 1
    /\ \A i \in 1..Len(Verdict.errors) :
         IsPrefix(path, Verdict.errors[i].path) => Verdict.errors[i].path = path

\* C24: isValid is true exactly when the error list is empty
C24_VerdictAgreesWithErrors ==
  Validated => (Verdict.valid <=> Verdict.errors = << >>)

C24_Witness ==
  /\ Traversed
  /\ ~Verdict.valid
  /\ Len(Verdict.errors) = 1
  /\ Verdict.errors[1].prefix = "Validation error at path"
  /\ Verdict.errors[1].validator = "required"

(***************************************************************************)
(* Queries outside the vocabulary.                                         *)
(***************************************************************************)
\* the last call asked a query none of whose tokens the vocabulary knows
UnknownQuery ==
  /\ call.status = "done"
  /\ Range(Tokenize(call.query)) \cap index.vectorizer.vocabulary = {}

\* C23: a query without any known token (the empty query included) is
\* ranked like any other: nothing is raised, min(k, n) results come back and
\* every score is 0
C23_UnknownQueryScoresZero ==
  (UnknownQuery /\ call.k >= 1) =>
    /\ call.out.raised = "none"
    /\ call.out.returned
    /\ Len(Results) = Min2(call.k, Len(examples))
    /\ \A j \in 1..Len(Results) : Results[j].score = 0

C23_Witness ==
  /\ Returned
  /\ call.query = <<"zzz">>
  /\ call.k = 2
  /\ Len(examples) = MaxDocs
  /\ Len(Results) = 2
  /\ Results[1].score = 0
  /\ Results[2].score = 0

(***************************************************************************)
(* The session: /run stores, /download returns.                            *)
(***************************************************************************)
\* C25: /download returns the object the latest /run that parsed one got,
\* and 404 only when no /run of the session parsed one; a /run whose text
\* does not parse, or one refused for an empty query, erases nothing
C25_DownloadLastObject ==
  run.handler = "download_json" =>
    IF produced.set
    THEN run.status = 200 /\ run.body = produced.value
    ELSE run.status = 404

====
